---------------------------- MODULE Spec2Model ----------------------------
(***************************************************************************)
(* A model of the 25Live reservation scraper (collegenet/__main__.py):     *)
(* the record normalizer, the type filter, the page walk of                *)
(* ReservationScraper.scrape_reservations and the window loop of           *)
(* Scraper.run.                                                            *)
(*                                                                         *)
(* Python values are tagged records: None, Str (a sequence of characters), *)
(* Dict (a function from keys to values) and List (a sequence of values).  *)
(* A computation that may raise yields [k |-> "ok", v |-> value] or        *)
(* [k |-> "raise", err |-> exception class].                               *)
(***************************************************************************)
EXTENDS Integers, Sequences, FiniteSets, TLC

\* ------------------------------------------------------------------ bounds
MaxDays == 14
MaxStep == 7
MaxWindows == 3
MaxPages == 3
MaxRecs == 3

\* ------------------------------------------------------- program constants
PAGE_SIZE == 500

\* ------------------------------------------------------------ Python values
None == [t |-> "none"]
Str(cs) == [t |-> "str", v |-> cs]
Dict(f) == [t |-> "dict", v |-> f]
List(s) == [t |-> "list", v |-> s]

Ok(x) == [k |-> "ok", v |-> x]
Raise(e) == [k |-> "raise", err |-> e]

\* bool(x) for the values above
Truthy(x) ==
    CASE x.t = "none" -> FALSE
      [] x.t = "str"  -> Len(x.v) > 0
      [] x.t = "dict" -> DOMAIN x.v # {}
      [] x.t = "list" -> Len(x.v) > 0

\* d.get(key, default) on the mapping d
GetOr(d, key, default) == IF key \in DOMAIN d THEN d[key] ELSE default

\* d.get(key)
Get(d, key) == GetOr(d, key, None)

\* d[key] = value
SetKey(d, key, value) == (key :> value) @@ d

\* ------------------------------------------------------------ string helpers
RECURSIVE StripCommas(_)
\* s.replace(",", "")
StripCommas(cs) ==
    IF cs = <<>> THEN <<>>
    ELSE IF Head(cs) = "," THEN StripCommas(Tail(cs))
    ELSE <<Head(cs)>> \o StripCommas(Tail(cs))

RECURSIVE JoinCommaSpace(_)
\* ", ".join(parts)
JoinCommaSpace(parts) ==
    IF parts = <<>> THEN <<>>
    ELSE IF Len(parts) = 1 THEN parts[1]
    ELSE parts[1] \o <<",", " ">> \o JoinCommaSpace(Tail(parts))

\* needle in haystack, for two strings
Contains(needle, haystack) ==
    \E i \in 1..(Len(haystack) - Len(needle) + 1) :
        SubSeq(haystack, i, i + Len(needle) - 1) = needle

DigitChar(d) == <<"0", "1", "2", "3", "4", "5", "6", "7", "8", "9">>[d + 1]

RECURSIVE Digits(_)
\* str(n) for an integer n >= 0
Digits(n) ==
    IF n < 10 THEN <<DigitChar(n)>>
    ELSE Digits(n \div 10) \o <<DigitChar(n % 10)>>

\* the digit a character stands for, -1 for a character that is no digit
DigitValue(c) ==
    IF \E d \in 0..9 : DigitChar(d) = c
    THEN CHOOSE d \in 0..9 : DigitChar(d) = c
    ELSE -1

RECURSIVE ParseDigits(_)
ParseDigits(cs) ==
    IF cs = <<>> THEN 0
    ELSE 10 * ParseDigits(SubSeq(cs, 1, Len(cs) - 1)) + DigitValue(cs[Len(cs)])

\* int(x) for a string x of decimal digits; ValueError for any other string
IntOf(x) ==
    IF x.t = "str" /\ Len(x.v) > 0 /\ \A i \in 1..Len(x.v) : DigitValue(x.v[i]) >= 0
    THEN Ok(ParseDigits(x.v))
    ELSE Raise(IF x.t = "str" THEN "ValueError" ELSE "TypeError")

\* ------------------------------------------------------------- string values
NOT_SPECIFIED == <<"N", "o", "t", " ", "S", "p", "e", "c", "i", "f", "i", "e", "d">>
TYPE_BL == <<"B", "L">>
TYPE_IN == <<"I", "N">>
BL_LECTURE == <<"B", "L", "-", "L", "e", "c", "t", "u", "r", "e">>
SEMINAR == <<"S", "e", "m", "i", "n", "a", "r">>
INTERNAL == <<"I", "N", "T">>
LOWER_BL == <<"b", "l", "-", "i", "n">>

DT_MORNING == <<"2", "0", "2", "4", "-", "0", "1", "-", "1", "5", "T", "1", "0", ":", "0", "0", ":", "0", "0">>
DT_NOON == <<"2", "0", "2", "4", "-", "0", "1", "-", "1", "5", "T", "1", "2", ":", "3", "0", ":", "0", "0">>
DT_YEAR_ONE == <<"0", "0", "0", "1", "-", "0", "1", "-", "0", "1", "T", "0", "0", ":", "0", "0", ":", "0", "0">>
DT_GARBAGE == <<"n", "o", "t", "-", "a", "-", "d", "a", "t", "e">>

IntVal(n) == [t |-> "int", v |-> n]

\* ---------------------------------------------------------------- datetimes
\* What datetime.fromisoformat, datetime.timestamp (a naive datetime, local
\* zone UTC) and strftime("%m/%d/%Y %I:%M %p") give on the texts the model
\* uses.  A naive datetime within a day of year 1 parses, and its timestamp()
\* raises ValueError ("year 0 is out of range").
IsoRow(cs) ==
    CASE cs = DT_MORNING ->
            [parses |-> TRUE, ts |-> Ok(1705312800),
             friendly |-> <<"0", "1", "/", "1", "5", "/", "2", "0", "2", "4",
                            " ", "1", "0", ":", "0", "0", " ", "A", "M">>]
      [] cs = DT_NOON ->
            [parses |-> TRUE, ts |-> Ok(1705321800),
             friendly |-> <<"0", "1", "/", "1", "5", "/", "2", "0", "2", "4",
                            " ", "1", "2", ":", "3", "0", " ", "P", "M">>]
      [] cs = DT_YEAR_ONE ->
            [parses |-> TRUE, ts |-> Raise("ValueError"),
             friendly |-> <<"0", "1", "/", "0", "1", "/", "1",
                            " ", "1", "2", ":", "0", "0", " ", "A", "M">>]
      [] OTHER -> [parses |-> FALSE]

\* datetime.fromisoformat(x)
fromisoformat(x) ==
    IF x.t # "str" THEN Raise("TypeError")
    ELSE IF IsoRow(x.v).parses THEN Ok(IsoRow(x.v))
    ELSE Raise("ValueError")

\* ------------------------------------------------------- the record normalizer
\* extract_event_id without the isinstance branch: the raw value as it came
extract_event_id_verbatim(reservation) ==
    GetOr(reservation, "r25:event_id", Dict(<<>>))

\* ReservationScraper._extract_event_id
extract_event_id(reservation) ==
    LET event_id == GetOr(reservation, "r25:event_id", Dict(<<>>))
    IN  IF event_id.t = "dict" THEN Get(event_id.v, "#text") ELSE event_id

\* combine_event_name_and_title without line 146-147: a title never joins a name
combine_name_or_title(reservation) ==
    LET name == Get(reservation, "r25:event_name")
        title == Get(reservation, "r25:event_title")
    IN  IF Truthy(name) THEN name ELSE title

\* ReservationScraper._combine_event_name_and_title
combine_event_name_and_title(reservation) ==
    LET name == Get(reservation, "r25:event_name")
        title == Get(reservation, "r25:event_title")
    IN  IF Truthy(name) /\ Truthy(title)
        THEN Str(name.v \o <<" ", "-", " ">> \o title.v)
        ELSE IF Truthy(name) THEN name ELSE title

\* ReservationScraper._add_datetime_fields: the statements of the try block
\* run in order; a ValueError or TypeError ends the block and keeps the keys
\* already assigned.
add_datetime_fields(processed, reservation) ==
    LET start_time == fromisoformat(processed["start"])
        end_time == fromisoformat(processed["end"])
        last_modified == Get(reservation, "r25:last_mod_dt")
        last_mod_time == fromisoformat(last_modified)
    IN  IF start_time.k = "raise" THEN processed
        ELSE IF end_time.k = "raise" THEN processed
        ELSE IF start_time.v.ts.k = "raise" THEN processed
        ELSE LET p1 == SetKey(processed, "start_timestamp", IntVal(start_time.v.ts.v))
             IN  IF end_time.v.ts.k = "raise" THEN p1
                 ELSE LET p2 == SetKey(p1, "end_timestamp", IntVal(end_time.v.ts.v))
                          p3 == SetKey(p2, "start_date_friendly", Str(start_time.v.friendly))
                          p4 == SetKey(p3, "end_date_friendly", Str(end_time.v.friendly))
                      IN  IF ~Truthy(last_modified) THEN p4
                          ELSE IF last_mod_time.k = "raise" THEN p4
                          ELSE LET p5 == SetKey(p4, "last_updated_friendly",
                                                Str(last_mod_time.v.friendly))
                               IN  IF last_mod_time.v.ts.k = "raise" THEN p5
                                   ELSE SetKey(p5, "last_updated_timestamp",
                                               IntVal(last_mod_time.v.ts.v))

RECURSIVE SpaceNames(_, _, _)
\* the loop over a list of space reservations in _add_location_fields
SpaceNames(spaces, full_names, abbr_names) ==
    IF spaces = <<>> THEN Ok([full |-> full_names, abbr |-> abbr_names])
    ELSE LET space == Head(spaces)
             full == GetOr(space.v, "r25:formal_name", Str(<<>>))
             abbr == GetOr(space.v, "r25:space_name", Str(<<>>))
         IN  IF space.t # "dict" THEN Raise("AttributeError")
             ELSE IF full.t # "str" THEN Raise("AttributeError")
             ELSE IF abbr.t # "str" THEN Raise("AttributeError")
             ELSE SpaceNames(Tail(spaces),
                     IF StripCommas(full.v) # <<>>
                     THEN Append(full_names, StripCommas(full.v)) ELSE full_names,
                     IF StripCommas(abbr.v) # <<>>
                     THEN Append(abbr_names, StripCommas(abbr.v)) ELSE abbr_names)

\* ReservationScraper._add_location_fields
add_location_fields(processed, reservation) ==
    LET space_reservations == Get(reservation, "r25:space_reservation")
        names == SpaceNames(space_reservations.v, <<>>, <<>>)
    IN  IF ~Truthy(space_reservations)
        THEN Ok(SetKey(SetKey(processed, "location_full", Str(NOT_SPECIFIED)),
                       "location_abbr", Str(NOT_SPECIFIED)))
        ELSE IF space_reservations.t = "list"
        THEN IF names.k = "raise" THEN names
             ELSE Ok(SetKey(SetKey(processed,
                        "location_full", Str(JoinCommaSpace(names.v.full))),
                        "location_abbr", Str(JoinCommaSpace(names.v.abbr))))
        ELSE IF space_reservations.t = "dict"
        THEN Ok(SetKey(SetKey(processed,
                   "location_full",
                   GetOr(space_reservations.v, "r25:formal_name", Str(NOT_SPECIFIED))),
                   "location_abbr",
                   GetOr(space_reservations.v, "r25:space_name", Str(NOT_SPECIFIED))))
        ELSE Ok(processed)

\* ReservationScraper._process_single_reservation
process_single_reservation(reservation) ==
    IF reservation.t # "dict" THEN Raise("AttributeError")
    ELSE LET r == reservation.v
             processed ==
                 ("reservation_id" :> Get(r, "r25:reservation_id"))
              @@ ("event_type" :> Get(r, "r25:event_type_name"))
              @@ ("event_id" :> extract_event_id(r))
              @@ ("reservation_state" :> Get(r, "r25:reservation_state_name"))
              @@ ("reservation_id_friendly" :> Get(r, "r25:event_locator"))
              @@ ("expected_attendance" :> Get(r, "r25:expected_count"))
              @@ ("start" :> Get(r, "r25:reservation_start_dt"))
              @@ ("end" :> Get(r, "r25:reservation_end_dt"))
              @@ ("organization" :> Get(r, "r25:organization_name"))
             named == SetKey(processed, "name", combine_event_name_and_title(r))
         IN  add_location_fields(add_datetime_fields(named, r), r)

RECURSIVE ParseLoopCarries(_, _)
\* ParseLoop with one dictionary reused for all records of a page: a record
\* keeps the keys of the record before it that it does not set itself
ParseLoopCarries(raw_reservations, processed_reservations) ==
    IF raw_reservations = <<>> THEN Ok(processed_reservations)
    ELSE LET one == process_single_reservation(Head(raw_reservations))
             carried == IF processed_reservations = <<>> THEN one.v
                        ELSE one.v @@ processed_reservations[Len(processed_reservations)]
         IN  IF one.k = "raise" THEN one
             ELSE ParseLoopCarries(Tail(raw_reservations),
                                   Append(processed_reservations, carried))

RECURSIVE ParseLoop(_, _)
\* the loop of _parse_reservation_data
ParseLoop(raw_reservations, processed_reservations) ==
    IF raw_reservations = <<>> THEN Ok(processed_reservations)
    ELSE LET one == process_single_reservation(Head(raw_reservations))
         IN  IF one.k = "raise" THEN one
             ELSE ParseLoop(Tail(raw_reservations),
                            Append(processed_reservations, one.v))

\* ReservationScraper._parse_reservation_data
parse_reservation_data(raw_reservations) == ParseLoop(raw_reservations, <<>>)

\* TypeTest with a null event type read as the empty text: the record is
\* dropped and nothing is raised
TypeTestNullAsEmpty(reservation) ==
    LET event_type == GetOr(reservation, "event_type", Str(<<>>))
    IN  CASE event_type.t = "str" ->
                Ok(Contains(TYPE_BL, event_type.v) \/ Contains(TYPE_IN, event_type.v))
          [] OTHER -> Ok(FALSE)

\* TypeTest without its second disjunct
TypeTestOnlyBL(reservation) ==
    LET event_type == GetOr(reservation, "event_type", Str(<<>>))
    IN  CASE event_type.t = "str" -> Ok(Contains(TYPE_BL, event_type.v))
          [] event_type.t = "dict" -> Ok(FALSE)
          [] OTHER -> Raise("TypeError")

\* the test of _filter_reservations_by_type on one record:
\* "BL" in event_type or "IN" in event_type
TypeTest(reservation) ==
    LET event_type == GetOr(reservation, "event_type", Str(<<>>))
    IN  CASE event_type.t = "str" ->
                Ok(Contains(TYPE_BL, event_type.v) \/ Contains(TYPE_IN, event_type.v))
          [] event_type.t = "dict" -> Ok(FALSE)
          [] OTHER -> Raise("TypeError")

RECURSIVE FilterLoop(_, _)
\* the loop of _filter_reservations_by_type
FilterLoop(reservations, filtered_reservations) ==
    IF reservations = <<>> THEN Ok(filtered_reservations)
    ELSE LET keep == TypeTest(Head(reservations))
         IN  IF keep.k = "raise" THEN keep
             ELSE FilterLoop(Tail(reservations),
                             IF keep.v THEN Append(filtered_reservations, Head(reservations))
                             ELSE filtered_reservations)

\* ReservationScraper._filter_reservations_by_type
filter_reservations_by_type(reservations) == FilterLoop(reservations, <<>>)

\* ReservationScraper._build_reservations_url: the query of the URL, as a
\* mapping from parameter name to the text sent for it.  page=None stands for
\* the default paginate_key of the page-1 call.
build_reservations_url(lookback_, lookahead_, page, paginate_key_) ==
    LET url == ("start_dt" :> lookback_)
            @@ ("end_dt" :> lookahead_)
            @@ ("page_size" :> Digits(PAGE_SIZE))
    IN  IF page > 1 /\ Truthy(paginate_key_)
        THEN ("paginate" :> paginate_key_.v) @@ ("page" :> Digits(page)) @@ url
        ELSE url

\* ------------------------------------------------------------ the remote API
KEY_ONE == <<"K", "1">>
KEY_TWO == <<"K", "2">>

\* a complete record: one space, kept by the type filter ("BL")
RawLecture ==
    Dict(("r25:reservation_id" :> Str(<<"7">>))
      @@ ("r25:event_type_name" :> Str(BL_LECTURE))
      @@ ("r25:event_id" :> Dict(("@id" :> Str(<<"x">>)) @@ ("#text" :> Str(<<"4", "2">>))))
      @@ ("r25:event_name" :> Str(<<"A">>))
      @@ ("r25:event_title" :> Str(<<"B">>))
      @@ ("r25:reservation_start_dt" :> Str(DT_MORNING))
      @@ ("r25:reservation_end_dt" :> Str(DT_NOON))
      @@ ("r25:space_reservation" :>
             Dict(("r25:formal_name" :> Str(<<"H", "a", "l", "l">>))
               @@ ("r25:space_name" :> Str(<<"H">>)))))

\* kept by the type filter ("IN"), two spaces
RawInternal ==
    Dict(("r25:reservation_id" :> Str(<<"8">>))
      @@ ("r25:event_type_name" :> Str(INTERNAL))
      @@ ("r25:event_id" :> Str(<<"4", "3">>))
      @@ ("r25:reservation_start_dt" :> Str(DT_MORNING))
      @@ ("r25:reservation_end_dt" :> Str(DT_GARBAGE))
      @@ ("r25:space_reservation" :>
             List(<<Dict(("r25:formal_name" :> Str(<<"H", ",", "1">>))
                      @@ ("r25:space_name" :> Str(<<"H">>))),
                    Dict(("r25:formal_name" :> Str(<<"G">>)))>>)))

\* dropped by the type filter, no space
RawSeminar ==
    Dict(("r25:reservation_id" :> Str(<<"9">>))
      @@ ("r25:event_type_name" :> Str(SEMINAR))
      @@ ("r25:event_title" :> Str(<<"B">>)))

\* dropped by the type filter: the letters of "BL" and "IN" in lower case
RawLowerCase ==
    Dict(("r25:reservation_id" :> Str(<<"1", "2">>))
      @@ ("r25:event_type_name" :> Str(LOWER_BL)))

\* no event type at all
RawNoType ==
    Dict(("r25:reservation_id" :> Str(<<"1", "0">>))
      @@ ("r25:event_name" :> Str(<<"A">>)))

\* a space whose formal name element is empty: <r25:formal_name/>
RawNullName ==
    Dict(("r25:reservation_id" :> Str(<<"1", "1">>))
      @@ ("r25:event_type_name" :> Str(BL_LECTURE))
      @@ ("r25:space_reservation" :>
             List(<<Dict(("r25:formal_name" :> None) @@ ("r25:space_name" :> Str(<<"H">>))),
                    Dict(("r25:formal_name" :> Str(<<"G">>)))>>)))

RawPool == {RawLecture, RawInternal, RawSeminar, RawLowerCase, RawNoType, RawNullName}

\* sequences of at most n raw records
RawLists(n) == UNION {[1..m -> RawPool] : m \in 0..n}

\* the values of the r25:reservation element of an envelope carrying at most
\* n records: one record comes unwrapped, several come as a list
RecordFields(n) ==
    {List(l) : l \in RawLists(n)} \cup (IF n >= 1 THEN RawPool ELSE {})

\* the @page_count attribute: absent (None here) or the text of 1..MaxPages
PageCountAttrs == {None} \cup {Str(Digits(n)) : n \in 1..MaxPages}

\* the @paginate_key attribute: absent (None here), empty, or a token
KeyAttrs == {None, Str(<<>>), Str(KEY_ONE)}

\* the parsed r25:reservations element with the given parts; Absent marks a
\* part the document does not have
Absent == [t |-> "absent"]
Envelope(records, count, key) ==
    Dict((IF records = Absent THEN <<>> ELSE ("r25:reservation" :> records))
      @@ (IF count = None THEN <<>> ELSE ("@page_count" :> count))
      @@ (IF key = None THEN <<>> ELSE ("@paginate_key" :> key)))

\* what _make_api_request can give for a request: a failure, an empty
\* r25:reservations element (None), or an envelope with one of `fields` as
\* its r25:reservation element and one of `attrs` as its page count and token
Responses(fields, attrs) ==
    {Raise("Exception"), Ok(None)}
    \cup {Ok(Envelope(r, a[1], a[2])) : r \in fields, a \in attrs}

\* page 1 of a walk of at most MaxRecs records
FirstResponseSet ==
    Responses(RecordFields(MaxRecs) \cup {Absent}, PageCountAttrs \X KeyAttrs)

\* the page count and token of the envelope of a later page: they may be
\* absent, larger or smaller than page 1's, the same or another token
LaterAttrs ==
    {<<None, None>>, <<Str(Digits(MaxPages + 1)), Str(KEY_TWO)>>,
     <<Str(Digits(1)), Str(KEY_ONE)>>}
\* a later page when the walk may still take n records, its envelope without
\* attributes
NextResponseSets ==
    [n \in 0..MaxRecs |-> Responses(RecordFields(n) \cup {Absent}, {<<None, None>>})]

\* the responses the windows of a whole run are checked on
RunFirstResponseSet ==
    Responses({Absent, RawLecture, RawSeminar,
               List(<<RawLecture, RawInternal>>), List(<<RawSeminar, RawNoType>>)},
              {<<None, None>>, <<Str(Digits(2)), Str(KEY_ONE)>>})
RunNextResponseSet ==
    Responses({Absent, RawLecture}, {<<None, None>>})

\* the responses of a run whose windows get different tokens and page counts
KeyedFirstResponseSet ==
    Responses({Absent, RawLecture, List(<<RawLecture, RawInternal>>)},
              {<<None, None>>, <<Str(Digits(2)), Str(KEY_ONE)>>,
               <<Str(Digits(2)), Str(<<>>)>>,
               <<Str(Digits(MaxPages)), Str(KEY_TWO)>>})
KeyedNextResponseSet ==
    Responses({Absent, RawSeminar, List(<<RawLecture, RawSeminar>>)}, LaterAttrs)

\* ------------------------------------------------------------------- state
VARIABLES
    days_ahead,          \* Scraper.run: argument days_ahead
    step_size,           \* Scraper.run: argument step_size
    day_offset,          \* Scraper.run: the loop variable of range(0, days_ahead, step_size)
    total_reservations,  \* Scraper.run: the running total
    run_pc,              \* Scraper.run: "loop" in the for loop, "done" after the summary
    windows,             \* the scrape_reservations calls made so far and how each ended
    scr_pc,              \* scrape_reservations: "idle" (no call), "paging" (in the page loop)
    lookback,            \* scrape_reservations: argument lookback
    lookahead,           \* scrape_reservations: argument lookahead
    all_reservations,    \* scrape_reservations: the accumulator
    page_count,          \* scrape_reservations: local page_count (0 before it is assigned)
    paginate_key,        \* scrape_reservations: local paginate_key (None before it is assigned)
    page_num,            \* scrape_reservations: the loop variable of range(2, page_count + 1)
    requests,            \* the URLs this call has requested, in order
    fetched,             \* what each of those requests got
    first_response,      \* what the page-1 request of this call got
    result,              \* how the last finished call ended: a list, or an exception
    norm_in,             \* the raw record handed to _process_single_reservation
    norm_out             \* what it gave

vars == <<days_ahead, step_size, day_offset, total_reservations, run_pc, windows,
          scr_pc, lookback, lookahead, all_reservations, page_count, paginate_key,
          page_num, requests, fetched, first_response, result, norm_in, norm_out>>

normVars == <<norm_in, norm_out>>
runVars == <<days_ahead, step_size, day_offset, total_reservations, run_pc, windows>>
scrVars == <<scr_pc, lookback, lookahead, all_reservations, page_count, paginate_key,
             page_num, requests, fetched, first_response, result>>

Pending == [k |-> "pending"]

\* the number of iterations of range(0, days, step)
RangeLen(days, step) == (days + step - 1) \div step

\* f"+{n}"
Offset(n) == <<"+">> \o Digits(n)

\* WindowBounds with the upper bound one day late
WindowBoundsLate(offset, step) ==
    [lookback |-> Offset(offset), lookahead |-> Offset(offset + step)]

\* Scraper.run, lines 341-342: the arguments of the call for the window that
\* starts at offset
WindowBounds(offset, step) ==
    [lookback |-> Offset(offset), lookahead |-> Offset(offset + step - 1)]

\* what a request got, for the log; `single` tells that the records element
\* was one unwrapped mapping, page_count and paginate_key are the attributes
\* of the envelope (None for one it does not have)
Got(fetch) ==
    IF fetch.k = "raise" THEN [kind |-> "failed"]
    ELSE IF fetch.v.t # "dict" \/ "r25:reservation" \notin DOMAIN fetch.v.v
    THEN [kind |-> "no_records"]
    ELSE [kind |-> "records",
          single |-> fetch.v.v["r25:reservation"].t # "list",
          page_count |-> Get(fetch.v.v, "@page_count"),
          paginate_key |-> Get(fetch.v.v, "@paginate_key"),
          raws |-> IF fetch.v.v["r25:reservation"].t = "list"
                   THEN fetch.v.v["r25:reservation"].v
                   ELSE <<fetch.v.v["r25:reservation"]>>]

\* ------------------------------------------------- scrape_reservations, page 1
\* FirstPage with the page count read before the test for records: an
\* envelope without records that reports several pages enters the page loop
FirstPageCountsBeforeEmpty(fetch) ==
    LET response == fetch.v
        reservations == response.v["r25:reservation"]
        parsed == parse_reservation_data(
                      IF reservations.t = "list" THEN reservations.v ELSE <<reservations>>)
        count == IntOf(GetOr(response.v, "@page_count", Str(<<"1">>)))
        filtered == filter_reservations_by_type(parsed.v)
    IN  IF fetch.k = "raise" THEN fetch
        ELSE IF ~Truthy(response) THEN [k |-> "return", v |-> <<>>]
        ELSE IF count.k = "raise" THEN count
        ELSE IF count.v > 1
        THEN IF "@paginate_key" \notin DOMAIN response.v THEN Raise("KeyError")
             ELSE [k |-> "more",
                   all |-> IF "r25:reservation" \in DOMAIN response.v
                           THEN parsed.v ELSE <<>>,
                   page_count |-> count.v,
                   paginate_key |-> response.v["@paginate_key"]]
        ELSE IF "r25:reservation" \notin DOMAIN response.v
        THEN [k |-> "return", v |-> <<>>]
        ELSE IF parsed.k = "raise" THEN parsed
        ELSE IF filtered.k = "raise" THEN filtered
        ELSE [k |-> "return", v |-> filtered.v]

\* Lines 246-283 on the page-1 response: the call returns, raises, or enters
\* the page loop ("more").
FirstPage(fetch) ==
    LET response == fetch.v
        reservations == response.v["r25:reservation"]
        parsed == parse_reservation_data(
                      IF reservations.t = "list" THEN reservations.v ELSE <<reservations>>)
        count == IntOf(GetOr(response.v, "@page_count", Str(<<"1">>)))
        filtered == filter_reservations_by_type(parsed.v)
    IN  IF fetch.k = "raise" THEN fetch
        ELSE IF ~Truthy(response) \/ "r25:reservation" \notin DOMAIN response.v
        THEN [k |-> "return", v |-> <<>>]
        ELSE IF parsed.k = "raise" THEN parsed
        ELSE IF count.k = "raise" THEN count
        ELSE IF count.v > 1
        THEN IF "@paginate_key" \notin DOMAIN response.v THEN Raise("KeyError")
             ELSE [k |-> "more", all |-> parsed.v, page_count |-> count.v,
                   paginate_key |-> response.v["@paginate_key"]]
        ELSE IF filtered.k = "raise" THEN filtered
        ELSE [k |-> "return", v |-> filtered.v]

\* NextPage with a later page that lacks its records taken as an empty page
NextPageSkipsMissing(fetch, all, num, count) ==
    LET response == fetch.v
        has == response.t = "dict" /\ "r25:reservation" \in DOMAIN response.v
        reservations == response.v["r25:reservation"]
        parsed == IF has
                  THEN parse_reservation_data(
                           IF reservations.t = "list" THEN reservations.v
                           ELSE <<reservations>>)
                  ELSE Ok(<<>>)
        filtered == filter_reservations_by_type(all \o parsed.v)
    IN  IF fetch.k = "raise" THEN fetch
        ELSE IF parsed.k = "raise" THEN parsed
        ELSE IF num < count
        THEN [k |-> "more", all |-> all \o parsed.v]
        ELSE IF filtered.k = "raise" THEN filtered
        ELSE [k |-> "return", v |-> filtered.v]

\* NextPage without line 275-276: a single unwrapped mapping is iterated as
\* it is, and the normalizer fails on its first key
NextPageNoCoercion(fetch, all, num, count) ==
    LET response == fetch.v
        reservations == response.v["r25:reservation"]
        parsed == IF reservations.t = "list"
                  THEN parse_reservation_data(reservations.v)
                  ELSE Raise("AttributeError")
        filtered == filter_reservations_by_type(all \o parsed.v)
    IN  IF fetch.k = "raise" THEN fetch
        ELSE IF response.t # "dict" THEN Raise("TypeError")
        ELSE IF "r25:reservation" \notin DOMAIN response.v THEN Raise("KeyError")
        ELSE IF parsed.k = "raise" THEN parsed
        ELSE IF num < count
        THEN [k |-> "more", all |-> all \o parsed.v]
        ELSE IF filtered.k = "raise" THEN filtered
        ELSE [k |-> "return", v |-> filtered.v]

\* NextPage with the records of the page put in front of the accumulator
NextPagePrepends(fetch, all, num, count) ==
    LET response == fetch.v
        reservations == response.v["r25:reservation"]
        parsed == parse_reservation_data(
                      IF reservations.t = "list" THEN reservations.v ELSE <<reservations>>)
        filtered == filter_reservations_by_type(parsed.v \o all)
    IN  IF fetch.k = "raise" THEN fetch
        ELSE IF response.t # "dict" THEN Raise("TypeError")
        ELSE IF "r25:reservation" \notin DOMAIN response.v THEN Raise("KeyError")
        ELSE IF parsed.k = "raise" THEN parsed
        ELSE IF num < count
        THEN [k |-> "more", all |-> parsed.v \o all]
        ELSE IF filtered.k = "raise" THEN filtered
        ELSE [k |-> "return", v |-> filtered.v]

\* NextPage with the page count read again from every envelope that has one
NextPageRereadsCount(fetch, all, num, count) ==
    LET response == fetch.v
        reservations == response.v["r25:reservation"]
        parsed == parse_reservation_data(
                      IF reservations.t = "list" THEN reservations.v ELSE <<reservations>>)
        filtered == filter_reservations_by_type(all \o parsed.v)
        recount == IF "@page_count" \in DOMAIN response.v
                   THEN ParseDigits(response.v["@page_count"].v) ELSE count
    IN  IF fetch.k = "raise" THEN fetch
        ELSE IF response.t # "dict" THEN Raise("TypeError")
        ELSE IF "r25:reservation" \notin DOMAIN response.v THEN Raise("KeyError")
        ELSE IF parsed.k = "raise" THEN parsed
        ELSE IF num < recount
        THEN [k |-> "more", all |-> all \o parsed.v]
        ELSE IF filtered.k = "raise" THEN filtered
        ELSE [k |-> "return", v |-> filtered.v]

\* Lines 272-283 on the response of page page_num of page_count
NextPage(fetch, all, num, count) ==
    LET response == fetch.v
        reservations == response.v["r25:reservation"]
        parsed == parse_reservation_data(
                      IF reservations.t = "list" THEN reservations.v ELSE <<reservations>>)
        filtered == filter_reservations_by_type(all \o parsed.v)
    IN  IF fetch.k = "raise" THEN fetch
        ELSE IF response.t # "dict" THEN Raise("TypeError")
        ELSE IF "r25:reservation" \notin DOMAIN response.v THEN Raise("KeyError")
        ELSE IF parsed.k = "raise" THEN parsed
        ELSE IF num < count
        THEN [k |-> "more", all |-> all \o parsed.v]
        ELSE IF filtered.k = "raise" THEN filtered
        ELSE [k |-> "return", v |-> filtered.v]

\* ------------------------------------------------------------ Scraper.run
\* WindowEnds with the except clause leaving the loop (break for continue)
WindowEndsBreaks(outcome) ==
    /\ total_reservations' =
           IF outcome.k = "return" /\ outcome.v # <<>>
           THEN total_reservations + Len(outcome.v)
           ELSE total_reservations
    /\ windows' = Append(windows,
                         [lookback |-> lookback', lookahead |-> lookahead',
                          ok |-> outcome.k = "return",
                          count |-> IF outcome.k = "return" THEN Len(outcome.v) ELSE 0,
                          paginate_key |-> paginate_key])
    /\ day_offset' = IF outcome.k = "return" THEN day_offset + step_size ELSE days_ahead
    /\ result' = IF outcome.k = "return" THEN Ok(outcome.v) ELSE outcome
    /\ scr_pc' = "idle"
    /\ UNCHANGED <<days_ahead, step_size, run_pc>>

\* Lines 350-359 and the loop step: the call of this window has ended with
\* `outcome`
WindowEnds(outcome) ==
    /\ total_reservations' =
           IF outcome.k = "return" /\ outcome.v # <<>>
           THEN total_reservations + Len(outcome.v)
           ELSE total_reservations
    /\ windows' = Append(windows,
                         [lookback |-> lookback', lookahead |-> lookahead',
                          ok |-> outcome.k = "return",
                          count |-> IF outcome.k = "return" THEN Len(outcome.v) ELSE 0,
                          paginate_key |-> paginate_key])
    /\ day_offset' = day_offset + step_size
    /\ result' = IF outcome.k = "return" THEN Ok(outcome.v) ELSE outcome
    /\ scr_pc' = "idle"
    /\ UNCHANGED <<days_ahead, step_size, run_pc>>

\* FirstPageStep with the page number and token of the call before kept on
\* the object: the first request of a window is built from them
FirstPageStepKeepsToken(responses) ==
    /\ run_pc = "loop"
    /\ scr_pc = "idle"
    /\ day_offset < days_ahead
    /\ \E fetch \in responses :
          LET outcome == FirstPage(fetch)
              last == requests[Len(requests)]
          IN  /\ lookback' = WindowBounds(day_offset, step_size).lookback
              /\ lookahead' = WindowBounds(day_offset, step_size).lookahead
              /\ requests' =
                    IF requests # <<>> /\ "paginate" \in DOMAIN last
                    THEN <<build_reservations_url(lookback', lookahead',
                                                  Len(requests), Str(last["paginate"]))>>
                    ELSE <<build_reservations_url(lookback', lookahead', 1, None)>>
              /\ fetched' = <<Got(fetch)>>
              /\ first_response' = fetch
              /\ IF outcome.k = "more"
                 THEN /\ all_reservations' = outcome.all
                      /\ page_count' = outcome.page_count
                      /\ paginate_key' = outcome.paginate_key
                      /\ page_num' = 2
                      /\ scr_pc' = "paging"
                      /\ result' = Pending
                      /\ UNCHANGED runVars
                 ELSE /\ all_reservations' = <<>>
                      /\ page_count' = 0
                      /\ paginate_key' = None
                      /\ page_num' = 0
                      /\ WindowEnds(outcome)
    /\ UNCHANGED normVars

\* One iteration of the loop of Scraper.run up to the response of page 1:
\* lines 339-348, then lines 240-265 of scrape_reservations.
FirstPageStep(responses) ==
    /\ run_pc = "loop"
    /\ scr_pc = "idle"
    /\ day_offset < days_ahead
    /\ \E fetch \in responses :
          LET outcome == FirstPage(fetch)
          IN  /\ lookback' = WindowBounds(day_offset, step_size).lookback
              /\ lookahead' = WindowBounds(day_offset, step_size).lookahead
              /\ requests' = <<build_reservations_url(lookback', lookahead', 1, None)>>
              /\ fetched' = <<Got(fetch)>>
              /\ first_response' = fetch
              /\ IF outcome.k = "more"
                 THEN /\ all_reservations' = outcome.all
                      /\ page_count' = outcome.page_count
                      /\ paginate_key' = outcome.paginate_key
                      /\ page_num' = 2
                      /\ scr_pc' = "paging"
                      /\ result' = Pending
                      /\ UNCHANGED runVars
                 ELSE /\ all_reservations' = <<>>
                      /\ page_count' = 0
                      /\ paginate_key' = None
                      /\ page_num' = 0
                      /\ WindowEnds(outcome)
    /\ UNCHANGED normVars

\* NextPageStep with a failed fetch asked again: the call stays in the loop at
\* the same page
NextPageStepRetries(responses) ==
    /\ scr_pc = "paging"
    /\ \E fetch \in responses :
          LET outcome == NextPage(fetch, all_reservations, page_num, page_count)
          IN  /\ requests' = Append(requests,
                      build_reservations_url(lookback, lookahead, page_num, paginate_key))
              /\ fetched' = Append(fetched, Got(fetch))
              /\ UNCHANGED <<lookback, lookahead, first_response>>
              /\ IF fetch.k = "raise"
                 THEN /\ UNCHANGED <<all_reservations, page_num, page_count,
                                     paginate_key, scr_pc, result>>
                      /\ UNCHANGED runVars
                 ELSE IF outcome.k = "more"
                 THEN /\ all_reservations' = outcome.all
                      /\ page_num' = page_num + 1
                      /\ UNCHANGED <<page_count, paginate_key, scr_pc, result>>
                      /\ UNCHANGED runVars
                 ELSE /\ all_reservations' = <<>>
                      /\ page_count' = 0
                      /\ paginate_key' = None
                      /\ page_num' = 0
                      /\ WindowEnds(outcome)
    /\ UNCHANGED normVars

\* One iteration of the page loop, lines 267-278, and after the last page
\* lines 280-283 and the end of the window in Scraper.run.
NextPageStep(responses) ==
    /\ scr_pc = "paging"
    /\ \E fetch \in responses :
          LET outcome == NextPage(fetch, all_reservations, page_num, page_count)
          IN  /\ requests' = Append(requests,
                      build_reservations_url(lookback, lookahead, page_num, paginate_key))
              /\ fetched' = Append(fetched, Got(fetch))
              /\ UNCHANGED <<lookback, lookahead, first_response>>
              /\ IF outcome.k = "more"
                 THEN /\ all_reservations' = outcome.all
                      /\ page_num' = page_num + 1
                      /\ UNCHANGED <<page_count, paginate_key, scr_pc, result>>
                      /\ UNCHANGED runVars
                 ELSE /\ all_reservations' = <<>>
                      /\ page_count' = 0
                      /\ paginate_key' = None
                      /\ page_num' = 0
                      /\ WindowEnds(outcome)
    /\ UNCHANGED normVars

\* RunCompletes reached only when no window failed: the error of a window
\* leaves the loop without the summary
RunCompletesAfterCleanRun ==
    /\ run_pc = "loop"
    /\ scr_pc = "idle"
    /\ day_offset >= days_ahead
    /\ \A i \in 1..Len(windows) : windows[i].ok
    /\ run_pc' = "done"
    /\ UNCHANGED <<days_ahead, step_size, day_offset, total_reservations, windows>>
    /\ UNCHANGED scrVars
    /\ UNCHANGED normVars

\* Lines 361-366: the loop is over, the summary is written
RunCompletes ==
    /\ run_pc = "loop"
    /\ scr_pc = "idle"
    /\ day_offset >= days_ahead
    /\ run_pc' = "done"
    /\ UNCHANGED <<days_ahead, step_size, day_offset, total_reservations, windows>>
    /\ UNCHANGED scrVars
    /\ UNCHANGED normVars

\* the two steps of a call, on the responses of a walk of at most MaxRecs records
FetchFirstPage == FirstPageStep(FirstResponseSet)
FetchNextPage == NextPageStep(NextResponseSets[MaxRecs - Len(all_reservations)])

\* the same steps in the windows of a whole run
WindowFirstPage == FirstPageStep(RunFirstResponseSet)
WindowNextPage == NextPageStep(RunNextResponseSet)

\* the same steps in a run whose windows get different tokens
KeyedFirstPage == FirstPageStep(KeyedFirstResponseSet)
KeyedNextPage == NextPageStep(KeyedNextResponseSet)

ScraperIdle ==
    /\ day_offset = 0
    /\ total_reservations = 0
    /\ run_pc = "loop"
    /\ windows = <<>>
    /\ scr_pc = "idle"
    /\ lookback = <<>>
    /\ lookahead = <<>>
    /\ all_reservations = <<>>
    /\ page_count = 0
    /\ paginate_key = None
    /\ page_num = 0
    /\ requests = <<>>
    /\ fetched = <<>>
    /\ first_response = Pending
    /\ result = Pending

\* Scraper.run(days_ahead, step_size) is entered
Init ==
    /\ days_ahead \in 0..MaxDays
    /\ step_size \in 1..MaxStep
    /\ RangeLen(days_ahead, step_size) <= MaxWindows
    /\ ScraperIdle
    /\ norm_in = None
    /\ norm_out = Pending

Next == WindowFirstPage \/ WindowNextPage \/ RunCompletes

Spec == Init /\ [][Next]_vars

\* Scraper.run runs on one thread and every call of it returns or raises: a
\* step that can be taken is taken
SpecLive == Init /\ [][Next]_vars /\ WF_vars(Next)

\* Scraper.run over two full windows, each with a token of its own
InitWindows ==
    /\ days_ahead = 2 * MaxStep
    /\ step_size = MaxStep
    /\ ScraperIdle
    /\ norm_in = None
    /\ norm_out = Pending

NextWindows == KeyedFirstPage \/ KeyedNextPage \/ RunCompletes

SpecWindows == InitWindows /\ [][NextWindows]_vars

\* one call of scrape_reservations: the run of a single window
InitScrape ==
    /\ days_ahead = MaxStep
    /\ step_size = MaxStep
    /\ ScraperIdle
    /\ norm_in = None
    /\ norm_out = Pending

NextScrape == FetchFirstPage \/ FetchNextPage \/ RunCompletes

SpecScrape == InitScrape /\ [][NextScrape]_vars

\* ------------------------------------------------- the normalizer on its own
\* an optional entry of a mapping
Entry(key, value) == IF value = Absent THEN <<>> ELSE (key :> value)

SPACE_HALL == Dict(("r25:formal_name" :> Str(<<"H", "a", ",", "l", "l">>))
                @@ ("r25:space_name" :> Str(<<"H", ",", "1">>)))
SPACE_GYM == Dict(("r25:formal_name" :> Str(<<"G", "y", "m">>))
               @@ ("r25:space_name" :> Str(<<"G">>)))
SPACE_FORMAL_ONLY == Dict(("r25:formal_name" :> Str(<<"L", "a", "b">>)))
SPACE_NO_NAMES == Dict(("r25:space_id" :> Str(<<"5">>)))
SPACE_NULL_FORMAL == Dict(("r25:formal_name" :> None) @@ ("r25:space_name" :> Str(<<"H">>)))
SPACE_NULL_SHORT == Dict(("r25:formal_name" :> Str(<<"G", "y", "m">>)) @@ ("r25:space_name" :> None))

\* the shapes of the r25:space_reservation field
SpaceShapes ==
    {Absent, None, Str(<<"x">>),
     SPACE_HALL, SPACE_FORMAL_ONLY, SPACE_NO_NAMES, SPACE_NULL_FORMAL,
     List(<<SPACE_HALL, SPACE_GYM>>), List(<<SPACE_GYM, SPACE_HALL>>),
     List(<<SPACE_NO_NAMES, SPACE_FORMAL_ONLY>>),
     List(<<SPACE_GYM, SPACE_NULL_FORMAL>>), List(<<SPACE_NULL_SHORT, SPACE_GYM>>)}

EventTypeShapes == {Absent, Str(BL_LECTURE)}
EventIdShapes ==
    {Absent, None, Str(<<"4", "2">>),
     Dict(("@id" :> Str(<<"x">>)) @@ ("#text" :> Str(<<"4", "2">>))),
     Dict(("@id" :> Str(<<"x">>)))}
NameShapes == {Absent, None, Str(<<"A">>)}
TitleShapes == {Absent, None, Str(<<"B">>)}
StartShapes == {Absent, None, Str(DT_GARBAGE), Str(DT_MORNING), Str(DT_YEAR_ONE)}
EndShapes == {Absent, Str(DT_GARBAGE), Str(DT_NOON), Str(DT_YEAR_ONE)}
LastModShapes == {Absent, Str(DT_GARBAGE), Str(DT_NOON)}

RawRecord(type, id, name, title, start, end, mod, space) ==
    Dict(Entry("r25:event_type_name", type)
      @@ Entry("r25:event_id", id)
      @@ Entry("r25:event_name", name)
      @@ Entry("r25:event_title", title)
      @@ Entry("r25:reservation_start_dt", start)
      @@ Entry("r25:reservation_end_dt", end)
      @@ Entry("r25:last_mod_dt", mod)
      @@ Entry("r25:space_reservation", space))

RawRecords ==
    {RawRecord(type, id, name, title, start, end, mod, space) :
        type \in EventTypeShapes, id \in EventIdShapes, name \in NameShapes,
        title \in TitleShapes, start \in StartShapes, end \in EndShapes,
        mod \in LastModShapes, space \in SpaceShapes}

\* _process_single_reservation is called on norm_in
NormalizeRecord ==
    /\ norm_out = Pending
    /\ norm_out' = process_single_reservation(norm_in)
    /\ UNCHANGED norm_in
    /\ UNCHANGED runVars
    /\ UNCHANGED scrVars

InitNormalize ==
    /\ days_ahead = 0
    /\ step_size = 1
    /\ ScraperIdle
    /\ norm_in \in RawRecords
    /\ norm_out = Pending

NextNormalize == NormalizeRecord

SpecNormalize == InitNormalize /\ [][NextNormalize]_vars

\* ---------------------------------------------------------------- log readers
\* a call of scrape_reservations has ended and its logs are complete
CallEnded == scr_pc = "idle" /\ result # Pending

\* the envelope page 1 of the call gave, when it gave one
FirstEnvelope == first_response.v.v
FirstHasRecords ==
    /\ first_response # Pending
    /\ first_response.k = "ok"
    /\ first_response.v.t = "dict"
    /\ "r25:reservation" \in DOMAIN FirstEnvelope

\* the page count page 1 reported (1 when it has no such attribute)
ReportedPages == ParseDigits(GetOr(FirstEnvelope, "@page_count", Str(<<"1">>)).v)

\* the number a "+N" offset stands for
OffsetValue(cs) == ParseDigits(Tail(cs))

RECURSIVE SumCounts(_)
SumCounts(ws) ==
    IF ws = <<>> THEN 0
    ELSE (IF Head(ws).ok THEN Head(ws).count ELSE 0) + SumCounts(Tail(ws))

\* ------------------------------------------------------------------- claims

\* C1: for every page count N >= 1 page 1 reports, a call in which every page
\* carries records and no fetch fails issues exactly N requests, for pages
\* 1..N in order; the first carries no token, the i-th (i >= 2) carries the
\* token of page 1's response and the page number i.  Stated here for the
\* calls that returned.
C1_WalkRequests ==
    (/\ CallEnded
     /\ result.k = "ok"
     /\ FirstHasRecords
     /\ \A i \in 1..Len(fetched) : fetched[i].kind = "records")
    => /\ Len(requests) = ReportedPages
       /\ "paginate" \notin DOMAIN requests[1]
       /\ "page" \notin DOMAIN requests[1]
       /\ \A i \in 2..Len(requests) :
             /\ "paginate" \in DOMAIN requests[i]
             /\ "page" \in DOMAIN requests[i]
             /\ requests[i]["paginate"] = FirstEnvelope["@paginate_key"].v
             /\ requests[i]["page"] = Digits(i)

\* C2 as stated: when the fetch of any page of a call fails, or the envelope
\* of any page lacks the records field, the call ends in an error.
C2_AnyPageAborts ==
    (CallEnded /\ \E i \in 1..Len(fetched) : fetched[i].kind \in {"failed", "no_records"})
    => result.k = "raise"

\* C2, amended: a failed fetch of any page, or a page 2..page_count without
\* the records field, ends the call in an error at that page: nothing is
\* returned and nothing is counted for the window.  Page 1 without the records
\* field ends the call after that one fetch with the empty list and no error.
C2_AbortsExceptEmptyFirstPage ==
    CallEnded =>
        /\ \A i \in 1..Len(fetched) :
              (fetched[i].kind = "failed" \/ (i >= 2 /\ fetched[i].kind = "no_records"))
              => /\ result.k = "raise"
                 /\ i = Len(fetched)
                 /\ ~windows[Len(windows)].ok
                 /\ windows[Len(windows)].count = 0
                 /\ total_reservations = SumCounts(SubSeq(windows, 1, Len(windows) - 1))
        /\ fetched[1].kind = "no_records"
              => /\ result = Ok(<<>>)
                 /\ Len(requests) = 1

\* a later page lacks its records after page 1 gave a record the filter keeps
C2_Witness ==
    /\ CallEnded
    /\ Len(fetched) >= 2
    /\ fetched[1].kind = "records"
    /\ fetched[1].raws = <<RawLecture>>
    /\ fetched[Len(fetched)].kind = "no_records"
    /\ result.k = "raise"

\* the number of iterations of range(0, days_ahead, step_size), counted
WindowCount == Cardinality({o \in 0..(days_ahead - 1) : o % step_size = 0})

\* C3: whichever windows fail, Scraper.run calls scrape_reservations once for
\* every window, in ascending offset order, and the total is the sum of the
\* record counts the successful calls returned.
C3_IsolateAndContinue ==
    /\ Len(windows) <= WindowCount
    /\ \A i \in 1..Len(windows) : OffsetValue(windows[i].lookback) = (i - 1) * step_size
    /\ total_reservations = SumCounts(windows)
    /\ run_pc = "done" => Len(windows) = WindowCount
    /\ (CallEnded /\ windows # <<>>) =>
          /\ windows[Len(windows)].ok = (result.k = "ok")
          /\ result.k = "ok" => windows[Len(windows)].count = Len(result.v)

\* window 2 of 3 failed, windows 1 and 3 returned records
C3_Witness ==
    /\ run_pc = "done"
    /\ Len(windows) = 3
    /\ windows[1].ok /\ windows[1].count > 0
    /\ ~windows[2].ok
    /\ windows[3].ok /\ windows[3].count > 0
    /\ total_reservations = windows[1].count + windows[3].count

\* C4 as stated: no window has an upper offset beyond days_ahead - 1, and the
\* last window ends at "+(days_ahead - 1)".
C4_WindowsWithinHorizon ==
    /\ \A i \in 1..Len(windows) : OffsetValue(windows[i].lookahead) <= days_ahead - 1
    /\ (run_pc = "done" /\ windows # <<>>) =>
          OffsetValue(windows[Len(windows)].lookahead) = days_ahead - 1

\* C5: when days_ahead is a positive multiple of step_size, the run makes
\* days_ahead / step_size calls, the k-th (from 0) with the bounds
\* "+k*step_size" and "+(k*step_size + step_size - 1)", ascending and
\* disjoint; for 14 and 7 they are ("+0", "+6") and ("+7", "+13").
C5_ExactWindows ==
    (days_ahead > 0 /\ days_ahead % step_size = 0) =>
        /\ \A i \in 1..Len(windows) :
              /\ Head(windows[i].lookback) = "+"
              /\ Head(windows[i].lookahead) = "+"
              /\ OffsetValue(windows[i].lookback) = (i - 1) * step_size
              /\ OffsetValue(windows[i].lookahead) = (i - 1) * step_size + step_size - 1
        /\ \A i \in 1..(Len(windows) - 1) :
              OffsetValue(windows[i].lookahead) < OffsetValue(windows[i + 1].lookback)
        /\ run_pc = "done" => Len(windows) * step_size = days_ahead
        /\ (run_pc = "done" /\ days_ahead = 14 /\ step_size = 7) =>
              /\ windows[1].lookback = <<"+", "0">>
              /\ windows[1].lookahead = <<"+", "6">>
              /\ windows[2].lookback = <<"+", "7">>
              /\ windows[2].lookahead = <<"+", "1", "3">>

C5_Witness ==
    /\ run_pc = "done"
    /\ days_ahead = 14
    /\ step_size = 7
    /\ Len(windows) = 2

RECURSIVE Flatten(_)
Flatten(pages) ==
    IF pages = <<>> THEN <<>> ELSE Head(pages).raws \o Flatten(Tail(pages))

\* the normalized records of all pages of the call, page by page
Accumulated ==
    LET raws == Flatten(fetched)
    IN  [i \in 1..Len(raws) |-> process_single_reservation(raws[i]).v]

\* the event type holds the letters B, L or the letters I, N side by side
KeptByType(record) ==
    /\ record["event_type"].t = "str"
    /\ \E i \in 1..(Len(record["event_type"].v) - 1) :
          \/ record["event_type"].v[i] = "B" /\ record["event_type"].v[i + 1] = "L"
          \/ record["event_type"].v[i] = "I" /\ record["event_type"].v[i + 1] = "N"

\* C6: a call that returns gives exactly the accumulated normalized records
\* whose event type contains "BL" or "IN", in their order: "BL-Lecture" is
\* kept, "Seminar" is dropped.
C6_FilteredSubsequence ==
    (CallEnded /\ result.k = "ok" /\ FirstHasRecords) =>
        /\ result.v = SelectSeq(Accumulated, KeptByType)
        /\ \A j \in 1..Len(Accumulated) :
              /\ Accumulated[j]["event_type"] = Str(BL_LECTURE)
                    => \E i \in 1..Len(result.v) : result.v[i] = Accumulated[j]
              /\ Accumulated[j]["event_type"] = Str(SEMINAR)
                    => \A i \in 1..Len(result.v) : result.v[i] # Accumulated[j]

\* two pages: an "IN" record, then a dropped record and a "BL" record
C6_Witness ==
    /\ CallEnded
    /\ result.k = "ok"
    /\ Len(fetched) = 2
    /\ fetched[1].kind = "records" /\ fetched[1].raws = <<RawInternal>>
    /\ fetched[2].kind = "records" /\ fetched[2].raws = <<RawSeminar, RawLecture>>
    /\ Len(result.v) = 2
    /\ result.v[1]["event_type"] = Str(INTERNAL)
    /\ result.v[2]["event_type"] = Str(BL_LECTURE)

\* ------------------------------------------------ claims about the normalizer
Normalized == norm_out # Pending /\ norm_out.k = "ok"

\* C7: _process_single_reservation returns a record for every raw record shape
\* and raises nothing.
C7_NormalizerNeverFails == norm_out # Pending => norm_out.k = "ok"

\* C8: every normalized record has location_full and location_abbr, and
\* neither is null.
C8_LocationsAlwaysSet ==
    Normalized =>
        /\ "location_full" \in DOMAIN norm_out.v
        /\ "location_abbr" \in DOMAIN norm_out.v
        /\ norm_out.v["location_full"] # None
        /\ norm_out.v["location_abbr"] # None

\* a name without its commas
NoCommas(cs) == SelectSeq(cs, LAMBDA c : c # ",")

RECURSIVE JoinedNames(_, _)
\* the comma-free names under `key` of the spaces that have one, joined by ", "
JoinedNames(spaces, key) ==
    IF spaces = <<>> THEN <<>>
    ELSE LET rest == JoinedNames(Tail(spaces), key)
             here == IF key \in DOMAIN Head(spaces).v
                     THEN NoCommas(Head(spaces).v[key].v) ELSE <<>>
         IN  IF here = <<>> THEN rest
             ELSE IF rest = <<>> THEN here
             ELSE here \o <<",", " ">> \o rest

\* C9: for a single space mapping the two location fields are its formal and
\* short name without commas; for a sequence of mappings they are the
\* comma-free names joined by ", " in input order; for an absent or empty
\* field both are "Not Specified".
C9_LocationDerivation ==
    Normalized =>
        LET space == Get(norm_in.v, "r25:space_reservation")
            full == norm_out.v["location_full"]
            abbr == norm_out.v["location_abbr"]
        IN  /\ ~Truthy(space) =>
                  /\ full = Str(NOT_SPECIFIED)
                  /\ abbr = Str(NOT_SPECIFIED)
            /\ (/\ space.t = "dict"
                /\ Get(space.v, "r25:formal_name").t = "str"
                /\ Get(space.v, "r25:space_name").t = "str") =>
                  /\ full = Str(NoCommas(space.v["r25:formal_name"].v))
                  /\ abbr = Str(NoCommas(space.v["r25:space_name"].v))
            /\ space.t = "list" =>
                  /\ full = Str(JoinedNames(space.v, "r25:formal_name"))
                  /\ abbr = Str(JoinedNames(space.v, "r25:space_name"))

DerivedDatetimeKeys ==
    {"start_timestamp", "end_timestamp", "start_date_friendly", "end_date_friendly"}

\* the texts of the model that are ISO-8601 datetimes
IsoTexts == {Str(DT_MORNING), Str(DT_NOON), Str(DT_YEAR_ONE)}

\* C10: the four derived datetime fields of a normalized record are either
\* all present or all absent, and absent whenever start or end is missing or
\* does not parse.
C10_DatetimeAllOrNothing ==
    Normalized =>
        LET present == DerivedDatetimeKeys \cap DOMAIN norm_out.v
            parse == /\ Get(norm_in.v, "r25:reservation_start_dt") \in IsoTexts
                     /\ Get(norm_in.v, "r25:reservation_end_dt") \in IsoTexts
        IN  /\ present = {} \/ present = DerivedDatetimeKeys
            /\ ~parse => present = {}

\* C12: the name of a normalized record is "A - B" for a source name A and a
\* source title B, A for a name without a title, B for a title without a
\* name, and null when both are null (or absent); so it is null exactly when
\* both are null.
C12_NameDerivation ==
    Normalized =>
        LET name == Get(norm_in.v, "r25:event_name")
            title == Get(norm_in.v, "r25:event_title")
            out == norm_out.v["name"]
        IN  /\ (name # None /\ title # None) =>
                  out = Str(name.v \o <<" ", "-", " ">> \o title.v)
            /\ (name # None /\ title = None) => out = name
            /\ (name = None /\ title # None) => out = title
            /\ (name = None /\ title = None) => out = None
            /\ (out = None) <=> (name = None /\ title = None)
            /\ (name = Str(<<"A">>) /\ title = Str(<<"B">>)) =>
                  out = Str(<<"A", " ", "-", " ", "B">>)

\* a record with both a name and a title has been normalized
C12_Witness ==
    /\ Normalized
    /\ Get(norm_in.v, "r25:event_name") = Str(<<"A">>)
    /\ Get(norm_in.v, "r25:event_title") = Str(<<"B">>)
    /\ norm_out.v["name"] = Str(<<"A", " ", "-", " ", "B">>)

\* C13: the event_id of a normalized record is the "#text" entry of the raw
\* event id when that is a mapping, and the raw value itself otherwise; the
\* wrapped "42" and the bare "42" both give "42".
C13_EventIdUnwrapped ==
    Normalized =>
        LET raw == Get(norm_in.v, "r25:event_id")
            out == norm_out.v["event_id"]
        IN  /\ raw.t = "dict" => out = Get(raw.v, "#text")
            /\ raw.t # "dict" => out = raw
            /\ (raw.t = "dict" /\ Get(raw.v, "#text") = Str(<<"4", "2">>)) =>
                  out = Str(<<"4", "2">>)
            /\ raw = Str(<<"4", "2">>) => out = Str(<<"4", "2">>)

\* a record with a wrapped event id has been normalized
C13_Witness ==
    /\ Normalized
    /\ Get(norm_in.v, "r25:event_id").t = "dict"
    /\ "#text" \in DOMAIN Get(norm_in.v, "r25:event_id").v
    /\ norm_out.v["event_id"] = Str(<<"4", "2">>)

\* ------------------------------------------------------- claims about the run

\* C11: for days_ahead >= 0 and step_size >= 1, with every fetch returning a
\* response or a failure and every page count finite, Scraper.run reaches its
\* summary whichever windows or pages failed: by then every window has been
\* attempted and the total is the sum of the counts of the windows that
\* returned.
C11_RunTerminates ==
    <>(/\ run_pc = "done"
       /\ Len(windows) = WindowCount
       /\ total_reservations = SumCounts(windows))

\* the summary after three failed windows: the first failed on its second
\* page, the others on their first
C11_Witness ==
    /\ run_pc = "done"
    /\ Len(windows) = 3
    /\ \A i \in 1..3 : ~windows[i].ok
    /\ windows[1].paginate_key = Str(KEY_ONE)
    /\ windows[2].paginate_key = None
    /\ total_reservations = 0

\* ------------------------------------------------------ claims about the walk

RECURSIVE NormalizedPages(_)
\* the records of the given pages, each page normalized in its own order,
\* page after page
NormalizedPages(pages) ==
    IF pages = <<>> THEN <<>>
    ELSE parse_reservation_data(Head(pages).raws).v \o NormalizedPages(Tail(pages))

\* C16: pages are walked one at a time: every request made so far has its
\* response before the next is issued, the request issued in the page loop
\* is the one for the page after the last, and at that moment the
\* accumulator holds the normalized records of all pages before it, page by
\* page in page order and in the order within each page, one per raw record.
C16_SequentialWalk ==
    [][(scr_pc = "paging" /\ requests' # requests) =>
          /\ Len(fetched) = Len(requests)
          /\ Len(requests') = Len(requests) + 1
          /\ SubSeq(requests', 1, Len(requests)) = requests
          /\ page_num = Len(requests) + 1
          /\ all_reservations = NormalizedPages(fetched)
          /\ Len(all_reservations) = Len(Flatten(fetched))]_vars

\* the request for page 3 has been issued after two records on page 1 and
\* one on page 2
C16_Witness ==
    /\ Len(requests) = 3
    /\ fetched[1].kind = "records" /\ fetched[1].raws = <<RawInternal, RawSeminar>>
    /\ fetched[2].kind = "records" /\ fetched[2].raws = <<RawLecture>>

\* C17: a failed fetch is not retried and ends the walk: the failed fetch is
\* the last request of its call and the call ends in an error; the page loop
\* asks for each page once, the request after the i-th being the one for
\* page i + 1, so a request that carries a page number carries its position.
C17_NoRetryAfterFailure ==
    /\ Len(fetched) = Len(requests)
    /\ \A k \in 1..Len(fetched) :
          fetched[k].kind = "failed" =>
              /\ k = Len(fetched)
              /\ scr_pc = "idle"
              /\ result.k = "raise"
    /\ scr_pc = "paging" =>
          /\ page_num = Len(requests) + 1
          /\ page_num <= page_count
    /\ \A i \in 1..Len(requests) :
          "page" \in DOMAIN requests[i] => requests[i]["page"] = Digits(i)

\* page 1 reported three pages, the fetch of page 2 failed, page 3 was never
\* requested
C17_Witness ==
    /\ CallEnded
    /\ FirstHasRecords
    /\ ReportedPages = 3
    /\ Len(requests) = 2
    /\ fetched[2].kind = "failed"
    /\ result.k = "raise"

\* the envelope of page 1 came without a page count
FirstLacksPageCount ==
    /\ first_response # Pending
    /\ first_response.k = "ok"
    /\ first_response.v.t = "dict"
    /\ "@page_count" \notin DOMAIN FirstEnvelope

EarlierWindows == IF scr_pc = "paging" THEN Len(windows) ELSE Len(windows) - 1

\* C19: nothing of the pagination of one window reaches another: in every
\* window the first request is the page-1 request of that window's own
\* bounds, without token and page number; a token carried by a later request
\* is the one page 1 of the same window gave, and the call makes no more
\* requests than that page 1 reported; between calls no page count, token or
\* accumulated record is held.  This holds after windows that returned and
\* after windows that failed on any page.
C19_NoLeakBetweenWindows ==
    /\ requests # <<>> =>
          /\ requests[1] = build_reservations_url(lookback, lookahead, 1, None)
          /\ "paginate" \notin DOMAIN requests[1]
          /\ "page" \notin DOMAIN requests[1]
          /\ requests[1]["start_dt"] = Offset(EarlierWindows * step_size)
          /\ \A i \in 2..Len(requests) :
                /\ requests[i]["start_dt"] = requests[1]["start_dt"]
                /\ "paginate" \in DOMAIN requests[i] =>
                      requests[i]["paginate"] = FirstEnvelope["@paginate_key"].v
          /\ Len(requests) <= (IF FirstHasRecords THEN ReportedPages ELSE 1)
    /\ scr_pc = "idle" =>
          /\ page_count = 0
          /\ paginate_key = None
          /\ all_reservations = <<>>

\* the first window failed part-way under the first token; the second
\* window has asked for its page 2 with the second token
C19_Witness ==
    /\ Len(windows) >= 1
    /\ ~windows[1].ok
    /\ windows[1].paginate_key = Str(KEY_ONE)
    /\ lookback = Offset(MaxStep)
    /\ Len(requests) >= 2
    /\ "paginate" \notin DOMAIN requests[1]
    /\ requests[2]["paginate"] = KEY_TWO

\* C20 as stated: whatever page 1's token is, the empty text included, every
\* request for a page n >= 2 carries that token and page=n, so that no two
\* requests of a call are the same; and a page 1 that reports several pages
\* without a token attribute ends the call in an error after that one fetch.
C20_LaterRequestsCarryToken ==
    /\ \A i \in 2..Len(requests) :
          /\ "paginate" \in DOMAIN requests[i]
          /\ "page" \in DOMAIN requests[i]
          /\ requests[i]["paginate"] = FirstEnvelope["@paginate_key"].v
          /\ requests[i]["page"] = Digits(i)
    /\ \A i, j \in 1..Len(requests) : i # j => requests[i] # requests[j]
    /\ (/\ FirstHasRecords
        /\ ReportedPages > 1
        /\ "@paginate_key" \notin DOMAIN FirstEnvelope) =>
          /\ scr_pc = "idle"
          /\ result.k = "raise"
          /\ Len(requests) = 1

\* ------------------------------------------------ claims about empty windows
\* page 1 of the call gave an empty r25:reservations element or an envelope
\* without the r25:reservation field
FirstIsEmpty ==
    /\ first_response # Pending
    /\ first_response.k = "ok"
    /\ \/ ~Truthy(first_response.v)
       \/ "r25:reservation" \notin DOMAIN FirstEnvelope

\* C21: when page 1 gives an empty envelope or one without the records
\* field, whatever page count it reports, the call returns the empty list
\* after that one fetch and raises nothing; Scraper.run logs the window as
\* successful with 0 records, leaves the total as it was and goes on to the
\* next window.
C21_EmptyFirstPage ==
    [][(scr_pc = "idle" /\ requests' # requests /\ FirstIsEmpty') =>
          /\ scr_pc' = "idle"
          /\ result' = Ok(<<>>)
          /\ Len(requests') = 1
          /\ Len(fetched') = 1
          /\ total_reservations' = total_reservations
          /\ Len(windows') = Len(windows) + 1
          /\ windows'[Len(windows')].ok
          /\ windows'[Len(windows')].count = 0
          /\ day_offset' = day_offset + step_size]_vars

\* the second window got an envelope without records that reports two pages
\* and a token, after a first window that counted records
C21_Witness ==
    /\ CallEnded
    /\ first_response = Ok(Envelope(Absent, Str(Digits(2)), Str(KEY_ONE)))
    /\ Len(windows) = 2
    /\ windows[1].ok /\ windows[1].count > 0
    /\ windows[2].ok /\ windows[2].count = 0
    /\ total_reservations = windows[1].count
    /\ Len(requests) = 1

\* --------------------------------------------- claims about the type filter
\* page k of the call carried records and every one of them was normalized
PageAccumulated(k) ==
    /\ fetched[k].kind = "records"
    /\ parse_reservation_data(fetched[k].raws).k = "ok"

\* the accumulator of the call took a record whose event_type is null: its
\* raw record has no r25:event_type_name field
NullTypeAccumulated ==
    \E k \in 1..Len(fetched) :
        /\ PageAccumulated(k)
        /\ \E i \in 1..Len(fetched[k].raws) :
              /\ "r25:event_type_name" \notin DOMAIN fetched[k].raws[i].v
              /\ process_single_reservation(fetched[k].raws[i]).v["event_type"] = None

\* C22: a call that accumulated a record with a null event_type ends in an
\* error and returns nothing, and Scraper.run logs the window as failed with
\* 0 records and adds nothing to the total, whatever the other records of
\* the window are; when the last page fetched was accumulated too, the error
\* is the TypeError of the type filter and it comes after the requests for
\* all the pages page 1 reported.
C22_NullTypeFailsWindow ==
    (CallEnded /\ NullTypeAccumulated) =>
        /\ result.k = "raise"
        /\ ~windows[Len(windows)].ok
        /\ windows[Len(windows)].count = 0
        /\ total_reservations = SumCounts(SubSeq(windows, 1, Len(windows) - 1))
        /\ (/\ PageAccumulated(Len(fetched))
            /\ ReportedPages > 1 => "@paginate_key" \in DOMAIN FirstEnvelope) =>
              /\ result = Raise("TypeError")
              /\ Len(requests) = ReportedPages
              /\ \A k \in 1..Len(fetched) : PageAccumulated(k)

\* the second window had a dropped record and a record without event type on
\* page 1 and a "BL" record on page 2, after a first window that counted records
C22_Witness ==
    /\ CallEnded
    /\ Len(windows) = 2
    /\ windows[1].ok /\ windows[1].count > 0
    /\ ~windows[2].ok /\ windows[2].count = 0
    /\ total_reservations = windows[1].count
    /\ Len(fetched) = 2
    /\ fetched[1].kind = "records" /\ fetched[1].raws = <<RawSeminar, RawNoType>>
    /\ fetched[2].kind = "records" /\ fetched[2].raws = <<RawLecture>>
    /\ result = Raise("TypeError")

=============================================================================
